---- MODULE Spec2Model ----
(***************************************************************************)
(* Team-member registry of the timezone board.                             *)
(*                                                                         *)
(* Every request first passes the NextAuth middleware and then runs the    *)
(* route handler of the deployed backend.  A handler is split at its       *)
(* awaits on the store, so that concurrent requests interleave at the      *)
(* granularity of individual store round-trips.                            *)
(*                                                                         *)
(*   backend "neon": GET/POST/DELETE /api/team-members (session, Postgres) *)
(*                   DELETE /api/team-members/[id]                         *)
(*   backend "blob": GET/POST/DELETE /api/team-members (one JSON blob)     *)
(*                                                                         *)
(* Store round-trips succeed except under BlobFaultSpec, where the storage *)
(* calls of the blob save may throw.                                       *)
(*                                                                         *)
(* The status board is a separate component: three cards that turn an      *)
(* instant, a zone and an optional work window into a working status.      *)
(***************************************************************************)
EXTENDS Integers, Sequences, FiniteSets, TLC

VARIABLES backend, inflight, team_members, nextId, blobs, nextUrl, now, req, remaining,
          createdIds, deletedIds, utc, card, hook, query

vars == <<backend, inflight, team_members, nextId, blobs, nextUrl, now, req, remaining,
          createdIds, deletedIds, utc, card, hook, query>>

--------------------------------------------------------------------------
(* Bounds *)

\* request slots, i.e. handlers that can be in flight at once
NProc == 2
\* requests per behaviour when requests overlap
MaxReq == 2
\* requests per behaviour when they run one after the other
MaxSeqReq == 3
\* days over which the clock of the status board ranges
Days == 7
\* last value of the clock behind Date.now()
MaxClock == 5

Procs == 1..NProc

--------------------------------------------------------------------------
(* Identity: the users table and the session derived from it *)

\* rows of the users table, id -> role; written by the signIn callback
users == (1 :> "user") @@ (2 :> "user") @@ (3 :> "admin")

UserIds == DOMAIN users

\* 0 stands for a request without a session cookie
Anonymous == 0

Callers == UserIds \cup {Anonymous}

\* SQL NULL in created_by
NULL == 0

\* JWT decoded from the session cookie; <<>> when there is none
Token(who) == IF who = Anonymous THEN <<>> ELSE <<who>>

\* getServerSession(authOptions): null without a valid token, otherwise the
\* session callback copies id and role of the users row into session.user
GetServerSession(who) ==
  IF Token(who) = <<>> THEN <<>>
  ELSE <<[id |-> who, role |-> IF users[who] = "" THEN "user" ELSE users[who]]>>

--------------------------------------------------------------------------
(* Middleware *)

TeamMembersPath == "/api/team-members"
TeamMemberIdPath == "/api/team-members/[id]"

Paths == {TeamMembersPath, TeamMemberIdPath, "/auth/signin", "/auth/error", "/api/auth/session"}

\* pathname.startsWith(route) for route in publicRoutes
IsPublicRoute(pathname) == pathname \in {"/auth/signin", "/auth/error"}

\* config.matcher: every path except api/auth, auth/signin, auth/error, static
MatcherApplies(pathname) == pathname \notin {"/api/auth/session", "/auth/signin", "/auth/error"}

\* callbacks.authorized
AuthorizedMutant(token, pathname) == TRUE

Authorized(token, pathname) ==
  IF token # <<>> THEN TRUE
  ELSE IF IsPublicRoute(pathname) THEN TRUE
  ELSE FALSE

--------------------------------------------------------------------------
(* Request bodies *)

ValidBody == [name |-> "Ann", location |-> "Riga", timezone |-> "Europe/Riga"]

Bodies == { ValidBody,
            [ValidBody EXCEPT !.name = ""],
            [ValidBody EXCEPT !.location = ""],
            [ValidBody EXCEPT !.timezone = ""],
            [ValidBody EXCEPT !.timezone = "Mars/Olympus"] }

NoBody == [name |-> "", location |-> "", timezone |-> ""]

\* !name || !location || !timezone
MissingField(body) == body.name = "" \/ body.location = "" \/ body.timezone = ""

--------------------------------------------------------------------------
(* Requests *)

Idle == [pc |-> "idle", method |-> "", path |-> "", who |-> Anonymous, body |-> NoBody,
         id |-> 0, status |-> 0, session |-> <<>>, isAdmin |-> FALSE, row |-> <<>>,
         created |-> 0, url |-> 0, members |-> <<>>, toSave |-> <<>>, dels |-> {},
         cont |-> "", data |-> <<>>,
         pre |-> <<{}, {}>>, hist |-> <<{}, {}>>, read |-> <<>>, fault |-> ""]

\* useState([]), useState(true), useState(null); added and removed record the
\* ids for which addMember and removeMember have resolved true
NoHook == [members |-> <<>>, loading |-> TRUE, error |-> <<>>, added |-> {}, removed |-> {}]

\* a query that has not been fetched; errors records the status of every
\* failed attempt of the current fetch
NoQuery == [state |-> "idle", failureCount |-> 0, delay |-> 0, errors |-> <<>>]

Finished(p) == req[p].pc \in {"idle", "done"}

\* the handler returns: its locals are gone, the response stays; url and read
\* keep the blob the handler had fetched and the collection it had read,
\* fault the storage operation that failed under it
Reply(r, code) ==
  [Idle EXCEPT !.pc = "done", !.status = code, !.method = r.method, !.path = r.path,
               !.who = r.who, !.body = r.body, !.id = r.id, !.created = r.created,
               !.pre = r.pre, !.hist = r.hist, !.url = r.url,
               !.read = r.members, !.fault = r.fault]

\* NextResponse.json({ success: true, data })
ReplyData(r, data) == [Reply(r, 200) EXCEPT !.data = data]

InFlight == {p \in Procs : ~Finished(p)}

\* the status board is a separate component; the registry leaves it alone
BoardFrame == UNCHANGED <<utc, card, hook, query>>

\* a new request arrives; pre records the store as it is on arrival, hist the
\* ids that earlier responses reported as created and as deleted
Arrive(p, method, path, who, body, id) ==
  /\ Finished(p)
  /\ \A q \in Procs : Finished(q) => p <= q
  /\ remaining > 0
  /\ Cardinality(InFlight) < inflight
  /\ req' = [req EXCEPT ![p] = [Idle EXCEPT !.pc = "mw", !.method = method, !.path = path,
                                           !.who = who, !.body = body, !.id = id,
                                           !.pre = <<team_members, blobs>>,
                                           !.hist = <<createdIds, deletedIds>>]]
  /\ remaining' = remaining - 1
  /\ UNCHANGED <<backend, inflight, team_members, nextId, blobs, nextUrl, now,
                 createdIds, deletedIds>>
  /\ BoardFrame

\* ids a caller may name; 0 stands for a missing or non-numeric id parameter
TargetIds ==
  IF backend = "neon" THEN 0..MaxSeqReq
  ELSE 0..MaxClock

StartCreate(p) ==
  \E who \in Callers, body \in Bodies :
    Arrive(p, "POST", TeamMembersPath, who, body, 0)

StartDelete(p) ==
  \E who \in Callers, id \in TargetIds :
    Arrive(p, "DELETE", TeamMembersPath, who, NoBody, id)

StartList(p) ==
  \E who \in Callers :
    Arrive(p, "GET", TeamMembersPath, who, NoBody, 0)

StartDeleteById(p) ==
  /\ backend = "neon"
  /\ \E who \in Callers, id \in TargetIds :
       Arrive(p, "DELETE", TeamMemberIdPath, who, NoBody, id)

\* withAuth: an unauthorized request is redirected to the sign-in page
Middleware(p) ==
  /\ req[p].pc = "mw"
  /\ req' = [req EXCEPT ![p] =
       IF MatcherApplies(req[p].path) /\ ~Authorized(Token(req[p].who), req[p].path)
       THEN Reply(req[p], 307)
       ELSE [req[p] EXCEPT !.pc = "handler"]]
  /\ UNCHANGED <<backend, inflight, team_members, nextId, blobs, nextUrl, now, remaining,
                 createdIds, deletedIds>>
  /\ BoardFrame

--------------------------------------------------------------------------
(* JavaScript values: an optional value is a sequence of length 0 or 1 *)

\* const [x] = rows
FirstRow(rows) == IF rows = <<>> THEN <<>> ELSE <<rows[1]>>

\* x?.[key] on an optional object
Prop(x, key) ==
  IF x = <<>> THEN <<>>
  ELSE IF key \in DOMAIN x[1] THEN <<x[1][key]>> ELSE <<>>

\* currentUser?.[0]?.role === 'admin'
IsAdminOf(currentUser) == Prop(Prop(currentUser, "0"), "role") = <<"admin">>

--------------------------------------------------------------------------
(* Postgres queries of the neon backend *)

\* SELECT role FROM users WHERE id = uid
SelectRole(uid) == IF uid \in UserIds THEN <<[role |-> users[uid]]>> ELSE <<>>

\* SELECT id FROM team_members WHERE created_by = uid
SelectByCreatorNone(uid) == {}

SelectByCreatorAny(uid) == {[id |-> r.id] : r \in team_members}

SelectByCreator(uid) == {[id |-> r.id] : r \in {m \in team_members : m.created_by = uid}}

\* SELECT ... FROM team_members WHERE id = id
SelectById(id) == {m \in team_members : m.id = id}

\* a set of at most one row as the array the driver returns
AsRows(S) == IF S = {} THEN <<>> ELSE <<CHOOSE r \in S : TRUE>>

\* INSERT INTO team_members ... RETURNING id; the serial column supplies the id
\* and the column default the creation stamp, a logical time that grows with
\* every insert
NewRowMutant(body, createdBy, status) ==
  [id |-> nextId, name |-> body.name, location |-> body.location,
   timezone |-> body.timezone, created_by |-> NULL, status |-> status,
   created_at |-> nextId]

NewRow(body, createdBy, status) ==
  [id |-> nextId, name |-> body.name, location |-> body.location,
   timezone |-> body.timezone, created_by |-> createdBy, status |-> status,
   created_at |-> nextId]

\* DELETE FROM team_members WHERE id = id
DeleteRowsMutant(id) ==
  {IF m.id = id THEN [m EXCEPT !.status = "deleted"] ELSE m : m \in team_members}

DeleteRows(id) == team_members \ SelectById(id)

\* SELECT of the whole table as List returns it
SelectAll == team_members

\* ORDER BY tm.created_at DESC
RECURSIVE OrderDesc(_)
OrderDesc(S) ==
  IF S = {} THEN <<>>
  ELSE LET latest == CHOOSE m \in S : \A o \in S : o.created_at <= m.created_at
       IN <<latest>> \o OrderDesc(S \ {latest})

NeonFrame == UNCHANGED <<backend, inflight, blobs, nextUrl, now, remaining, utc, card, hook, query>>

KeepHistory == UNCHANGED <<createdIds, deletedIds>>

--------------------------------------------------------------------------
(* GET /api/team-members, neon backend *)

GetEntry(p) ==
  /\ backend = "neon"
  /\ req[p].method = "GET"
  /\ req[p].pc = "handler"
  /\ LET session == GetServerSession(req[p].who)
         r == [req[p] EXCEPT !.session = session]
     IN req' = [req EXCEPT ![p] =
          IF session = <<>> THEN Reply(r, 401) ELSE [r EXCEPT !.pc = "select"]]
  /\ UNCHANGED <<team_members, nextId>>
  /\ KeepHistory
  /\ NeonFrame

GetSelect(p) ==
  /\ backend = "neon"
  /\ req[p].method = "GET"
  /\ req[p].pc = "select"
  /\ LET teamMembers == OrderDesc(SelectAll)
     IN req' = [req EXCEPT ![p] = ReplyData(@, teamMembers)]
  /\ UNCHANGED <<team_members, nextId>>
  /\ KeepHistory
  /\ NeonFrame

--------------------------------------------------------------------------
(* POST /api/team-members, neon backend *)

At(p, method, path, pc) ==
  /\ backend = "neon"
  /\ req[p].method = method
  /\ req[p].path = path
  /\ req[p].pc = pc

PostEntry(p) ==
  /\ At(p, "POST", TeamMembersPath, "handler")
  /\ LET session == GetServerSession(req[p].who)
         r == [req[p] EXCEPT !.session = session]
     IN req' = [req EXCEPT ![p] =
          IF MissingField(r.body) THEN Reply(r, 400)
          ELSE IF session = <<>> THEN [r EXCEPT !.pc = "insert"]
          ELSE [r EXCEPT !.pc = "role"]]
  /\ UNCHANGED <<team_members, nextId>>
  /\ KeepHistory
  /\ NeonFrame

PostRole(p) ==
  /\ At(p, "POST", TeamMembersPath, "role")
  /\ LET currentUser == FirstRow(SelectRole(req[p].session[1].id))
         isAdmin == IsAdminOf(currentUser)
     IN req' = [req EXCEPT ![p] = [@ EXCEPT !.isAdmin = isAdmin,
                                            !.pc = IF isAdmin THEN "insert" ELSE "existing"]]
  /\ UNCHANGED <<team_members, nextId>>
  /\ KeepHistory
  /\ NeonFrame

PostExisting(p) ==
  /\ At(p, "POST", TeamMembersPath, "existing")
  /\ LET existingMember == FirstRow(AsRows(SelectByCreator(req[p].session[1].id)))
     IN req' = [req EXCEPT ![p] =
          IF existingMember # <<>> THEN Reply(@, 403) ELSE [@ EXCEPT !.pc = "insert"]]
  /\ UNCHANGED <<team_members, nextId>>
  /\ KeepHistory
  /\ NeonFrame

PostInsert(p) ==
  /\ At(p, "POST", TeamMembersPath, "insert")
  /\ LET newMember == IF req[p].session = <<>>
                      THEN NewRow(req[p].body, NULL, "pending")
                      ELSE NewRow(req[p].body, req[p].session[1].id, "active")
     IN /\ team_members' = team_members \cup {newMember}
        /\ nextId' = nextId + 1
        /\ req' = [req EXCEPT ![p] = Reply([@ EXCEPT !.created = newMember.id], 200)]
        /\ createdIds' = createdIds \cup {newMember.id}
  /\ UNCHANGED deletedIds
  /\ NeonFrame

--------------------------------------------------------------------------
(* DELETE /api/team-members?id=, neon backend *)

\* teamMember.created_by === parseInt(session.user.id)
IsCreatorMutant(teamMember, session) == TRUE

IsCreator(teamMember, session) == teamMember.created_by = session.id

\* !teamMember
NotFoundMutant(teamMember) == FALSE

NotFound(teamMember) == teamMember = <<>>

DeleteEntry(p) ==
  /\ At(p, "DELETE", TeamMembersPath, "handler")
  /\ LET session == GetServerSession(req[p].who)
         r == [req[p] EXCEPT !.session = session]
     IN req' = [req EXCEPT ![p] =
          IF session = <<>> THEN Reply(r, 401)
          ELSE IF r.id = 0 THEN Reply(r, 400)
          ELSE [r EXCEPT !.pc = "lookup"]]
  /\ UNCHANGED <<team_members, nextId>>
  /\ KeepHistory
  /\ NeonFrame

DeleteLookup(p) ==
  /\ At(p, "DELETE", TeamMembersPath, "lookup")
  /\ req' = [req EXCEPT ![p] = [@ EXCEPT !.row = FirstRow(AsRows(SelectById(req[p].id))),
                                         !.pc = "role"]]
  /\ UNCHANGED <<team_members, nextId>>
  /\ KeepHistory
  /\ NeonFrame

DeleteRole(p) ==
  /\ At(p, "DELETE", TeamMembersPath, "role")
  /\ LET currentUser == FirstRow(SelectRole(req[p].session[1].id))
         teamMember == req[p].row
         isAdmin == IsAdminOf(currentUser)
         isCreator == teamMember # <<>> /\ IsCreator(teamMember[1], req[p].session[1])
     IN req' = [req EXCEPT ![p] =
          IF NotFound(teamMember) THEN Reply(@, 404)
          ELSE IF ~isAdmin /\ ~isCreator THEN Reply(@, 403)
          ELSE [@ EXCEPT !.isAdmin = isAdmin, !.pc = "delete"]]
  /\ UNCHANGED <<team_members, nextId>>
  /\ KeepHistory
  /\ NeonFrame

DeleteExec(p) ==
  /\ At(p, "DELETE", TeamMembersPath, "delete")
  /\ team_members' = DeleteRows(req[p].id)
  /\ req' = [req EXCEPT ![p] = Reply(@, 200)]
  /\ deletedIds' = deletedIds \cup {req[p].id}
  /\ UNCHANGED <<nextId, createdIds>>
  /\ NeonFrame

--------------------------------------------------------------------------
(* DELETE /api/team-members/[id], neon backend *)

\* session.user?.id === member.created_by_id, where the LEFT JOIN on users
\* makes created_by_id NULL when created_by is NULL
IsCreatorById(member, session) == session.id = member.created_by

DeleteByIdEntry(p) ==
  /\ At(p, "DELETE", TeamMemberIdPath, "handler")
  /\ LET session == GetServerSession(req[p].who)
         r == [req[p] EXCEPT !.session = session]
     IN req' = [req EXCEPT ![p] =
          IF session = <<>> THEN Reply(r, 401)
          ELSE IF r.id = 0 THEN Reply(r, 400)
          ELSE [r EXCEPT !.pc = "lookup"]]
  /\ UNCHANGED <<team_members, nextId>>
  /\ KeepHistory
  /\ NeonFrame

DeleteByIdCheck(p) ==
  /\ At(p, "DELETE", TeamMemberIdPath, "lookup")
  /\ LET memberCheck == AsRows(SelectById(req[p].id))
         currentUserRole == IF req[p].session[1].role = "" THEN "user" ELSE req[p].session[1].role
         isAdmin == currentUserRole = "admin"
         isCreator == memberCheck # <<>> /\ IsCreatorById(memberCheck[1], req[p].session[1])
     IN req' = [req EXCEPT ![p] =
          IF memberCheck = <<>> THEN Reply(@, 404)
          ELSE IF ~isAdmin /\ ~isCreator
               THEN Reply(@, 403)
          ELSE [@ EXCEPT !.row = memberCheck, !.isAdmin = isAdmin, !.pc = "delete"]]
  /\ UNCHANGED <<team_members, nextId>>
  /\ KeepHistory
  /\ NeonFrame

DeleteByIdExec(p) ==
  /\ At(p, "DELETE", TeamMemberIdPath, "delete")
  /\ LET result == SelectById(req[p].id)
     IN /\ team_members' = DeleteRows(req[p].id)
        /\ req' = [req EXCEPT ![p] = IF result = {} THEN Reply(@, 500) ELSE Reply(@, 200)]
        /\ deletedIds' = IF result = {} THEN deletedIds ELSE deletedIds \cup {req[p].id}
  /\ UNCHANGED <<nextId, createdIds>>
  /\ NeonFrame

--------------------------------------------------------------------------
(* Blob backend: the whole collection is one JSON blob *)

INITIAL_TEAM ==
  << [id |-> 1, name |-> "Jorge Pimentel", location |-> "Florida, USA", timezone |-> "America/New_York"],
     [id |-> 2, name |-> "Phillip", location |-> "Hanoi, Vietnam", timezone |-> "Asia/Ho_Chi_Minh"],
     [id |-> 3, name |-> "Kevin", location |-> "Riga, Latvia", timezone |-> "Europe/Riga"] >>

\* first clock value; Date.now() is far above the ids of INITIAL_TEAM
Epoch == Len(INITIAL_TEAM) + 1

\* currentMembers.filter(member => member.id !== memberId)
RECURSIVE FilterOut(_, _)
FilterOut(members, memberId) ==
  IF members = <<>> THEN <<>>
  ELSE IF Head(members).id # memberId
       THEN <<Head(members)>> \o FilterOut(Tail(members), memberId)
       ELSE FilterOut(Tail(members), memberId)

BlobFrame == UNCHANGED <<backend, inflight, team_members, nextId, remaining, utc, card, hook, query>>

AtBlob(p, pc) ==
  /\ backend = "blob"
  /\ req[p].pc = pc

\* POST: validation, then getTeamMembers()
BlobPostEntry(p) ==
  /\ AtBlob(p, "handler")
  /\ req[p].method = "POST"
  /\ req' = [req EXCEPT ![p] =
       IF MissingField(@.body) THEN Reply(@, 400) ELSE [@ EXCEPT !.pc = "g_list"]]
  /\ UNCHANGED <<blobs, nextUrl, now>>
  /\ KeepHistory
  /\ BlobFrame

\* GET: getTeamMembers()
BlobGetEntry(p) ==
  /\ AtBlob(p, "handler")
  /\ req[p].method = "GET"
  /\ req' = [req EXCEPT ![p] = [@ EXCEPT !.pc = "g_list"]]
  /\ UNCHANGED <<blobs, nextUrl, now>>
  /\ KeepHistory
  /\ BlobFrame

\* GET: the members read are the response
BlobGetReturn(p) ==
  /\ AtBlob(p, "after_get")
  /\ req[p].method = "GET"
  /\ req' = [req EXCEPT ![p] = ReplyData(@, req[p].members)]
  /\ UNCHANGED <<blobs, nextUrl, now>>
  /\ KeepHistory
  /\ BlobFrame

\* DELETE: id parameter check, then getTeamMembers(); there is no session check
BlobDeleteEntry(p) ==
  /\ AtBlob(p, "handler")
  /\ req[p].method = "DELETE"
  /\ req' = [req EXCEPT ![p] =
       IF @.id = 0 THEN Reply(@, 400) ELSE [@ EXCEPT !.pc = "g_list"]]
  /\ UNCHANGED <<blobs, nextUrl, now>>
  /\ KeepHistory
  /\ BlobFrame

\* getTeamMembers: list({prefix}); without a blob the initial team is saved first
GetList(p) ==
  /\ AtBlob(p, "g_list")
  /\ IF blobs = {}
     THEN req' = [req EXCEPT ![p] = [@ EXCEPT !.toSave = INITIAL_TEAM, !.cont = "init",
                                              !.pc = "s_list"]]
     ELSE \E latestBlob \in blobs :
            req' = [req EXCEPT ![p] = [@ EXCEPT !.url = latestBlob.url, !.pc = "g_fetch"]]
  /\ UNCHANGED <<blobs, nextUrl, now>>
  /\ KeepHistory
  /\ BlobFrame

\* getTeamMembers: fetch(latestBlob.url); a failed fetch falls back to INITIAL_TEAM
GetFetch(p) ==
  /\ AtBlob(p, "g_fetch")
  /\ LET found == {b \in blobs : b.url = req[p].url}
         data == IF found = {} THEN INITIAL_TEAM ELSE (CHOOSE b \in found : TRUE).data
     IN req' = [req EXCEPT ![p] = [@ EXCEPT !.members = data,
                                            !.fault = IF found = {} THEN "fetch" ELSE @,
                                            !.pc = "after_get"]]
  /\ UNCHANGED <<blobs, nextUrl, now>>
  /\ KeepHistory
  /\ BlobFrame

\* const updatedMembers = [...currentMembers, newMember]
UpdatedMutant(currentMembers, newMember) ==
  IF blobs = {} THEN Append(currentMembers, newMember)
  ELSE Append((CHOOSE b \in blobs : TRUE).data, newMember)

Updated(currentMembers, newMember) == Append(currentMembers, newMember)

\* POST: newMember with id Date.now() appended to the members read
BlobPostBuild(p) ==
  /\ AtBlob(p, "after_get")
  /\ req[p].method = "POST"
  /\ \E t \in {now, now + 1} :
       /\ t <= MaxClock
       /\ now' = t
       /\ LET newMember == [id |-> t, name |-> req[p].body.name,
                            location |-> req[p].body.location,
                            timezone |-> req[p].body.timezone]
          IN req' = [req EXCEPT ![p] = [@ EXCEPT !.created = t,
                                                 !.toSave = Updated(req[p].members, newMember),
                                                 !.cont = "write", !.pc = "s_list"]]
  /\ UNCHANGED <<blobs, nextUrl>>
  /\ KeepHistory
  /\ BlobFrame

\* DELETE: filter the members read; 404 when nothing was filtered out
BlobDeleteFilter(p) ==
  /\ AtBlob(p, "after_get")
  /\ req[p].method = "DELETE"
  /\ LET updatedMembers == FilterOut(req[p].members, req[p].id)
     IN req' = [req EXCEPT ![p] =
          IF Len(updatedMembers) = Len(@.members) THEN Reply(@, 404)
          ELSE [@ EXCEPT !.toSave = updatedMembers, !.cont = "write", !.pc = "s_list"]]
  /\ UNCHANGED <<blobs, nextUrl, now>>
  /\ KeepHistory
  /\ BlobFrame

\* saveTeamMembers: list the existing blobs
SaveList(p) ==
  /\ AtBlob(p, "s_list")
  /\ LET urls == {b.url : b \in blobs}
     IN req' = [req EXCEPT ![p] = [@ EXCEPT !.dels = urls,
                                            !.pc = IF urls = {} THEN "s_put" ELSE "s_del"]]
  /\ UNCHANGED <<blobs, nextUrl, now>>
  /\ KeepHistory
  /\ BlobFrame

\* saveTeamMembers: del(blob.url) for one listed blob
SaveDel(p) ==
  /\ AtBlob(p, "s_del")
  /\ \E u \in req[p].dels :
       /\ blobs' = {b \in blobs : b.url # u}
       /\ req' = [req EXCEPT ![p] = [@ EXCEPT !.dels = @ \ {u},
                                              !.pc = IF req[p].dels = {u} THEN "s_put" ELSE "s_del"]]
  /\ UNCHANGED <<nextUrl, now>>
  /\ KeepHistory
  /\ BlobFrame

\* saveTeamMembers: put(TEAM_DATA_FILENAME, jsonData); then the caller continues
SavePut(p) ==
  /\ AtBlob(p, "s_put")
  /\ blobs' = blobs \cup {[url |-> nextUrl, data |-> req[p].toSave]}
  /\ nextUrl' = nextUrl + 1
  /\ req' = [req EXCEPT ![p] =
       IF @.cont = "init" THEN [@ EXCEPT !.members = INITIAL_TEAM, !.pc = "after_get"]
       ELSE Reply(@, 200)]
  /\ createdIds' = IF req[p].cont = "write" /\ req[p].method = "POST"
                   THEN createdIds \cup {req[p].created} ELSE createdIds
  /\ deletedIds' = IF req[p].cont = "write" /\ req[p].method = "DELETE"
                   THEN deletedIds \cup {req[p].id} ELSE deletedIds
  /\ UNCHANGED now
  /\ BlobFrame

--------------------------------------------------------------------------
(* Status board *)

\* the zones the time library resolves, with their offset from UTC in minutes
\* (daylight saving is left out); any other name is an invalid zone
ZoneOffset ==
  [z \in {"Europe/Riga", "America/New_York", "Asia/Ho_Chi_Minh"} |->
     CASE z = "Europe/Riga" -> 120
       [] z = "America/New_York" -> -300
       [] z = "Asia/Ho_Chi_Minh" -> 420]

Resolvable(timezone) == timezone \in DOMAIN ZoneOffset

\* minutes of the hour at which the clock is sampled
Minutes == {0, 30, 59}

\* instants in minutes; the first day is left out so that no local time is
\* negative
Instants ==
  {(d + 1) * 24 * 60 + h * 60 + m : d \in 0..(Days - 1), h \in 0..23, m \in Minutes}

\* dt.setZone(timezone): the same instant seen in the zone; an unknown zone
\* makes the DateTime invalid
SetZone(ts, timezone) ==
  IF Resolvable(timezone)
  THEN [valid |-> TRUE, ts |-> ts, offset |-> ZoneOffset[timezone]]
  ELSE [valid |-> FALSE, ts |-> 0, offset |-> 0]

\* the wall clock of the zone
Local(dt) == dt.ts + dt.offset

\* dt.hour
Hour(dt) == (Local(dt) % (24 * 60)) \div 60

\* dt.weekday, 1 is Monday and 7 is Sunday
Weekday(dt) == ((Local(dt) \div (24 * 60)) % 7) + 1

\* a <= b on DateTimes compares valueOf(); with an invalid side it is false
Lte(a, b) == a.valid /\ b.valid /\ a.ts <= b.ts

\* part_011: localTime ? localTime.hour >= 9 && localTime.hour <= 17 : false
\* (the hour of an invalid DateTime is NaN and compares false)
IsWorkingHours(localTime) ==
  IF localTime = <<>> THEN FALSE
  ELSE localTime[1].valid /\ Hour(localTime[1]) >= 9 /\ Hour(localTime[1]) <= 17

\* part_011: the badge of the card
BoardBadge(mounted, isWorkingHours) ==
  IF mounted THEN (IF isWorkingHours THEN "Active Hours" ELSE "Off Hours")
  ELSE "Loading..."

\* MemberCard: hour >= 9 && hour < 18
IsBusinessHours(memberTime) ==
  memberTime.valid /\ Hour(memberTime) >= 9 /\ Hour(memberTime) < 18

\* MemberCard: memberTime.weekday > 5
IsWeekend(memberTime) == memberTime.valid /\ Weekday(memberTime) > 5

\* MemberCard: the badge of the card
MemberBadge(isBusinessHours, isWeekend) ==
  IF isWeekend THEN "Weekend"
  ELSE IF isBusinessHours THEN "Business Hours"
  ELSE "After Hours"

\* the characters of an HH:mm text
Digit ==
  [c \in {"0", "1", "2", "3", "4", "5", "6", "7", "8", "9"} |->
     CASE c = "0" -> 0 [] c = "1" -> 1 [] c = "2" -> 2 [] c = "3" -> 3 [] c = "4" -> 4
       [] c = "5" -> 5 [] c = "6" -> 6 [] c = "7" -> 7 [] c = "8" -> 8 [] c = "9" -> 9]

\* whether the text has the form HH:mm with HH in 00..23 and mm in 00..59
WellFormed(text) ==
  /\ Len(text) = 5
  /\ text[3] = ":"
  /\ \A i \in {1, 2, 4, 5} : text[i] \in DOMAIN Digit
  /\ Digit[text[1]] * 10 + Digit[text[2]] <= 23
  /\ Digit[text[4]] * 10 + Digit[text[5]] <= 59

\* the minute of the day an HH:mm text names
MinuteOfDay(text) ==
  (Digit[text[1]] * 10 + Digit[text[2]]) * 60 + Digit[text[4]] * 10 + Digit[text[5]]

\* DateTime.fromFormat(text, "HH:mm", { zone }): the named time on the
\* current date of the zone; invalid when the text or the zone is
FromFormat(text, timezone, ts) ==
  IF WellFormed(text) /\ Resolvable(timezone)
  THEN LET today == (Local(SetZone(ts, timezone)) \div (24 * 60)) * (24 * 60)
       IN [valid |-> TRUE, ts |-> today + MinuteOfDay(text) - ZoneOffset[timezone],
           offset |-> ZoneOffset[timezone]]
  ELSE [valid |-> FALSE, ts |-> 0, offset |-> 0]

\* gameboard card: inWorkingHours(); <<>> is null
InWorkingHoursMutant(nowDt, timezone, work_start, work_end) ==
  IF work_start = <<>> \/ work_end = <<>> THEN <<>>
  ELSE LET start == FromFormat(work_start, timezone, nowDt.ts)
           end == FromFormat(work_end, timezone, nowDt.ts)
       IN <<Lte(start, nowDt) /\ Lte(nowDt, end)>>

InWorkingHours(nowDt, timezone, work_start, work_end) ==
  IF work_start = <<>> \/ work_end = <<>> THEN <<>>
  ELSE LET start == FromFormat(work_start, timezone, nowDt.ts)
           end == FromFormat(work_end, timezone, nowDt.ts)
       IN IF Lte(end, start)
          THEN <<Lte(start, nowDt) \/ Lte(nowDt, end)>>
          ELSE <<Lte(start, nowDt) /\ Lte(nowDt, end)>>

\* gameboard card: the line the card shows for working
WorkingLine(working) ==
  IF working = <<>> THEN "Working hours not set"
  ELSE IF working[1] THEN "Working now"
  ELSE "Outside working hours"

\* zones and HH:mm texts given to the cards; <<>> is an absent (or empty) text
CardZones == DOMAIN ZoneOffset \cup {"Mars/Olympus"}

WorkTexts ==
  { <<>>,
    <<"0", "9", ":", "0", "0">>, <<"1", "7", ":", "0", "0">>,
    <<"2", "2", ":", "0", "0">>, <<"0", "6", ":", "0", "0">>,
    <<"2", "5", ":", "0", "0">>, <<"9", "a", "m">> }

NoCard == [kind |-> "none", timezone |-> "", work_start |-> <<>>, work_end |-> <<>>,
           mounted |-> FALSE, time |-> <<>>, badge |-> ""]

\* what the card of a kind shows at instant ts
BoardCard(timezone, mounted, ts) ==
  LET localTime == IF mounted THEN <<SetZone(ts, timezone)>> ELSE <<>>
  IN [NoCard EXCEPT !.kind = "board", !.timezone = timezone, !.mounted = mounted,
                    !.time = localTime,
                    !.badge = BoardBadge(mounted, IsWorkingHours(localTime))]

MemberCard(timezone, ts) ==
  LET memberTime == SetZone(ts, timezone)
  IN [NoCard EXCEPT !.kind = "member", !.timezone = timezone, !.mounted = TRUE,
                    !.time = <<memberTime>>,
                    !.badge = MemberBadge(IsBusinessHours(memberTime), IsWeekend(memberTime))]

GameCard(timezone, work_start, work_end, ts) ==
  LET nowDt == SetZone(ts, timezone)
      working == InWorkingHours(nowDt, timezone, work_start, work_end)
  IN [NoCard EXCEPT !.kind = "game", !.timezone = timezone, !.mounted = TRUE,
                    !.work_start = work_start, !.work_end = work_end,
                    !.time = <<nowDt>>, !.badge = WorkingLine(working)]

RegistryFrame ==
  UNCHANGED <<backend, inflight, team_members, nextId, blobs, nextUrl, now, req, remaining,
              createdIds, deletedIds, hook, query>>

\* part_011: first render, before the parent reports mounted
BoardRender ==
  /\ card = NoCard
  /\ \E timezone \in CardZones : card' = BoardCard(timezone, FALSE, utc)
  /\ UNCHANGED utc
  /\ RegistryFrame

\* part_011: the effect sets localTime once mounted
BoardEffect ==
  /\ card.kind = "board"
  /\ ~card.mounted
  /\ card' = BoardCard(card.timezone, TRUE, utc)
  /\ UNCHANGED utc
  /\ RegistryFrame

MemberRender ==
  /\ card = NoCard
  /\ \E timezone \in CardZones : card' = MemberCard(timezone, utc)
  /\ UNCHANGED utc
  /\ RegistryFrame

GameRender ==
  /\ card = NoCard
  /\ \E timezone \in CardZones, work_start \in WorkTexts, work_end \in WorkTexts :
       card' = GameCard(timezone, work_start, work_end, utc)
  /\ UNCHANGED utc
  /\ RegistryFrame

\* the timer fires at a later sampled instant and the card on screen is
\* rendered anew
Tick ==
  /\ \E ts \in {utc + 1, utc + 29, utc + 30} :
       /\ ts \in Instants
       /\ utc' = ts
       /\ card' = CASE card.kind = "board" -> BoardCard(card.timezone, card.mounted, ts)
                    [] card.kind = "member" -> MemberCard(card.timezone, ts)
                    [] card.kind = "game" ->
                         GameCard(card.timezone, card.work_start, card.work_end, ts)
                    [] OTHER -> card
  /\ RegistryFrame

InitBoard ==
  /\ backend = "neon"
  /\ inflight = 0
  /\ remaining = 0
  /\ team_members = {}
  /\ nextId = 1
  /\ blobs = {}
  /\ nextUrl = 1
  /\ now = Epoch
  /\ req = [p \in Procs |-> Idle]
  /\ createdIds = {}
  /\ deletedIds = {}
  /\ utc = 24 * 60
  /\ card = NoCard
  /\ hook = NoHook
  /\ query = NoQuery

BoardNext == BoardRender \/ BoardEffect \/ MemberRender \/ GameRender \/ Tick

BoardSpec == InitBoard /\ [][BoardNext]_vars

--------------------------------------------------------------------------
(* Specifications *)

Empty ==
  /\ backend \in {"neon", "blob"}
  /\ team_members = {}
  /\ nextId = 1
  /\ blobs = {}
  /\ nextUrl = 1
  /\ now = Epoch
  /\ req = [p \in Procs |-> Idle]
  /\ createdIds = {}
  /\ deletedIds = {}
  /\ utc = 0
  /\ card = NoCard
  /\ hook = NoHook
  /\ query = NoQuery

\* each request completes before the next one starts; either backend
Init == Empty /\ inflight = 1 /\ remaining = MaxSeqReq

\* up to NProc requests of the neon backend overlap
InitConc == Empty /\ backend = "neon" /\ inflight = NProc /\ remaining = MaxReq

NeonNext ==
  \E p \in Procs :
    \/ StartCreate(p)
    \/ StartDelete(p)
    \/ StartDeleteById(p)
    \/ StartList(p)
    \/ Middleware(p)
    \/ GetEntry(p)
    \/ GetSelect(p)
    \/ PostEntry(p)
    \/ PostRole(p)
    \/ PostExisting(p)
    \/ PostInsert(p)
    \/ DeleteEntry(p)
    \/ DeleteLookup(p)
    \/ DeleteRole(p)
    \/ DeleteExec(p)
    \/ DeleteByIdEntry(p)
    \/ DeleteByIdCheck(p)
    \/ DeleteByIdExec(p)

BlobNext ==
  \E p \in Procs :
    \/ BlobPostEntry(p)
    \/ BlobGetEntry(p)
    \/ BlobGetReturn(p)
    \/ BlobDeleteEntry(p)
    \/ GetList(p)
    \/ GetFetch(p)
    \/ BlobPostBuild(p)
    \/ BlobDeleteFilter(p)
    \/ SaveList(p)
    \/ SaveDel(p)
    \/ SavePut(p)

Next == NeonNext \/ BlobNext

\* overlapping requests of the blob backend, all from one signed-in client:
\* the handlers of this backend look at neither the caller nor, beyond the
\* field check, the body
BlobCreate(p) == Arrive(p, "POST", TeamMembersPath, 1, ValidBody, 0)

BlobDelete(p) == \E id \in {1, Epoch} : Arrive(p, "DELETE", TeamMembersPath, 1, NoBody, id)

BlobList(p) == Arrive(p, "GET", TeamMembersPath, 1, NoBody, 0)

\* two requests at a time; the store is empty or holds the initial team that
\* the first getTeamMembers() of an earlier request saved
InitBlobConc ==
  /\ backend = "blob"
  /\ inflight = 2
  /\ remaining = MaxReq
  /\ team_members = {}
  /\ nextId = 1
  /\ \/ blobs = {} /\ nextUrl = 1
     \/ blobs = {[url |-> 1, data |-> INITIAL_TEAM]} /\ nextUrl = 2
  /\ now = Epoch
  /\ req = [p \in Procs |-> Idle]
  /\ createdIds = {}
  /\ deletedIds = {}
  /\ utc = 0
  /\ card = NoCard
  /\ hook = NoHook
  /\ query = NoQuery

BlobConcNext ==
  \/ \E p \in Procs :
       \/ BlobCreate(p)
       \/ BlobDelete(p)
       \/ BlobList(p)
       \/ Middleware(p)
  \/ BlobNext

Spec == Init /\ [][Next]_vars

ConcSpec == InitConc /\ [][NeonNext]_vars

BlobConcSpec == InitBlobConc /\ [][BlobConcNext]_vars

\* saveTeamMembers: list() throws; the inner catch logs it and the put follows
SaveListFail(p) ==
  /\ AtBlob(p, "s_list")
  /\ req' = [req EXCEPT ![p] = [@ EXCEPT !.fault = "list", !.pc = "s_put"]]
  /\ UNCHANGED <<blobs, nextUrl, now>>
  /\ KeepHistory
  /\ BlobFrame

\* saveTeamMembers: del() throws; the inner catch logs it, the remaining blobs
\* are not deleted and the put follows
SaveDelFail(p) ==
  /\ AtBlob(p, "s_del")
  /\ req' = [req EXCEPT ![p] = [@ EXCEPT !.fault = "del", !.dels = {}, !.pc = "s_put"]]
  /\ UNCHANGED <<blobs, nextUrl, now>>
  /\ KeepHistory
  /\ BlobFrame

\* saveTeamMembers: put() throws and the error is thrown on; inside
\* getTeamMembers it is caught and the initial team returned, in POST and
\* DELETE it becomes the 500 answer
SavePutFail(p) ==
  /\ AtBlob(p, "s_put")
  /\ req' = [req EXCEPT ![p] =
       IF @.cont = "init"
       THEN [@ EXCEPT !.fault = "put", !.members = INITIAL_TEAM, !.pc = "after_get"]
       ELSE Reply([@ EXCEPT !.fault = "put"], 500)]
  /\ UNCHANGED <<blobs, nextUrl, now>>
  /\ KeepHistory
  /\ BlobFrame

\* one request at a time on an initialised blob store, with storage calls of
\* the save that may fail
InitBlobFault ==
  /\ backend = "blob"
  /\ inflight = 1
  /\ remaining = MaxReq
  /\ team_members = {}
  /\ nextId = 1
  /\ blobs = {[url |-> 1, data |-> INITIAL_TEAM]}
  /\ nextUrl = 2
  /\ now = Epoch
  /\ req = [p \in Procs |-> Idle]
  /\ createdIds = {}
  /\ deletedIds = {}
  /\ utc = 0
  /\ card = NoCard
  /\ hook = NoHook
  /\ query = NoQuery

BlobFaultNext ==
  \/ BlobConcNext
  \/ \E p \in Procs :
       \/ SaveListFail(p)
       \/ SaveDelFail(p)
       \/ SavePutFail(p)

BlobFaultSpec == InitBlobFault /\ [][BlobFaultNext]_vars

--------------------------------------------------------------------------
(* GET/POST/DELETE /api/team-members on Vercel Postgres (backend "pg") *)

\* the rows of the initial INSERT; the flag is written as its country code
PgSeed ==
  << [name |-> "Jorge Pimentel", location |-> "Florida, USA", timezone |-> "America/New_York", flag |-> "US"],
     [name |-> "Phillip", location |-> "Hanoi, Vietnam", timezone |-> "Asia/Ho_Chi_Minh", flag |-> "VN"],
     [name |-> "Kevin", location |-> "Riga, Latvia", timezone |-> "Europe/Riga", flag |-> "LV"] >>

\* a row of the table: id SERIAL, created_at DEFAULT CURRENT_TIMESTAMP (a
\* logical time, one value per statement)
PgRow(id, m, stamp) ==
  [id |-> id, name |-> m.name, location |-> m.location, timezone |-> m.timezone,
   flag |-> m.flag, created_at |-> stamp]

\* the initial INSERT when the serial column stands at first
SeedRows(first) == {PgRow(first + k - 1, PgSeed[k], first) : k \in DOMAIN PgSeed}

\* SELECT * FROM team_members ORDER BY created_at ASC; rows of one statement
\* come in id order
RECURSIVE OrderAsc(_)
OrderAsc(S) ==
  IF S = {} THEN <<>>
  ELSE LET first == CHOOSE m \in S : \A o \in S :
                      \/ m.created_at < o.created_at
                      \/ m.created_at = o.created_at /\ m.id <= o.id
       IN <<first>> \o OrderAsc(S \ {first})

PgBody == [name |-> "Ann", location |-> "Riga", timezone |-> "Europe/Riga", flag |-> "LV"]

\* !name || !location || !timezone || !flag
PgMissingField(body) ==
  body.name = "" \/ body.location = "" \/ body.timezone = "" \/ body.flag = ""

AtPg(p, pc) ==
  /\ backend = "pg"
  /\ req[p].pc = pc

\* the handler up to its call of initializeDatabase(): POST checks the body,
\* DELETE the id parameter
PgEntry(p) ==
  /\ AtPg(p, "handler")
  /\ req' = [req EXCEPT ![p] =
       IF @.method = "POST" /\ PgMissingField(@.body) THEN Reply(@, 400)
       ELSE IF @.method = "DELETE" /\ @.id = 0 THEN Reply(@, 400)
       ELSE [@ EXCEPT !.pc = "pg_init"]]
  /\ UNCHANGED <<team_members, nextId>>
  /\ KeepHistory
  /\ NeonFrame

\* initializeDatabase(): the table exists; when COUNT(*) is '0' the initial
\* members are inserted
initializeDatabase(p) ==
  /\ AtPg(p, "pg_init")
  /\ IF team_members = {}
     THEN /\ team_members' = SeedRows(nextId)
          /\ nextId' = nextId + Len(PgSeed)
     ELSE UNCHANGED <<team_members, nextId>>
  /\ req' = [req EXCEPT ![p].pc = "pg_query"]
  /\ KeepHistory
  /\ NeonFrame

\* GET: SELECT * ... ORDER BY created_at ASC
PgSelect(p) ==
  /\ AtPg(p, "pg_query")
  /\ req[p].method = "GET"
  /\ req' = [req EXCEPT ![p] = ReplyData(@, OrderAsc(team_members))]
  /\ UNCHANGED <<team_members, nextId>>
  /\ KeepHistory
  /\ NeonFrame

\* POST: INSERT ... RETURNING *
PgInsert(p) ==
  /\ AtPg(p, "pg_query")
  /\ req[p].method = "POST"
  /\ LET row == PgRow(nextId, req[p].body, nextId)
     IN /\ team_members' = team_members \cup {row}
        /\ req' = [req EXCEPT ![p] = ReplyData([@ EXCEPT !.created = row.id], <<row>>)]
  /\ nextId' = nextId + 1
  /\ createdIds' = createdIds \cup {nextId}
  /\ UNCHANGED deletedIds
  /\ NeonFrame

\* DELETE: DELETE ... WHERE id = ${id} RETURNING *; no row is a 404
PgDelete(p) ==
  /\ AtPg(p, "pg_query")
  /\ req[p].method = "DELETE"
  /\ LET rows == {m \in team_members : m.id = req[p].id}
     IN /\ team_members' = team_members \ rows
        /\ req' = [req EXCEPT ![p] = Reply(@, IF rows = {} THEN 404 ELSE 200)]
        /\ deletedIds' = IF rows = {} THEN deletedIds ELSE deletedIds \cup {req[p].id}
  /\ UNCHANGED <<nextId, createdIds>>
  /\ NeonFrame

PgCreate(p) ==
  \E body \in {PgBody, [PgBody EXCEPT !.flag = ""]} :
    Arrive(p, "POST", TeamMembersPath, 1, body, 0)

PgRemove(p) ==
  \E id \in 0..Len(PgSeed) :
    Arrive(p, "DELETE", TeamMembersPath, 1, NoBody, id)

PgList(p) == Arrive(p, "GET", TeamMembersPath, 1, NoBody, 0)

\* one request at a time; the table holds what is left of the initial
\* members after any number of Deletes
InitPg ==
  /\ backend = "pg"
  /\ inflight = 1
  /\ remaining = MaxReq
  /\ team_members \in SUBSET SeedRows(1)
  /\ nextId = Len(PgSeed) + 1
  /\ blobs = {}
  /\ nextUrl = 1
  /\ now = Epoch
  /\ req = [p \in Procs |-> Idle]
  /\ createdIds = {}
  /\ deletedIds = {}
  /\ utc = 0
  /\ card = NoCard
  /\ hook = NoHook
  /\ query = NoQuery

PgNext ==
  \E p \in Procs :
    \/ PgCreate(p)
    \/ PgRemove(p)
    \/ PgList(p)
    \/ Middleware(p)
    \/ PgEntry(p)
    \/ initializeDatabase(p)
    \/ PgSelect(p)
    \/ PgInsert(p)
    \/ PgDelete(p)

PgSpec == InitPg /\ [][PgNext]_vars

--------------------------------------------------------------------------
(* QueryProvider: the retry policy of a query *)

\* error statuses of a failed attempt; 0 is an error that carries no status
ErrorStatuses == {0, 400, 404, 499, 500, 503}

Min(a, b) == IF a < b THEN a ELSE b

\* retry: (failureCount, error) => ...
retryMutant(failureCount, status) == failureCount < 3

retry(failureCount, status) ==
  IF status # 0 /\ status >= 400 /\ status < 500
  THEN FALSE
  ELSE failureCount < 3

\* retryDelay: (attemptIndex) => Math.min(1000 * 2 ** attemptIndex, 30000)
retryDelay(attemptIndex) == Min(1000 * 2^attemptIndex, 30000)

QueryFrame ==
  UNCHANGED <<backend, inflight, team_members, nextId, blobs, nextUrl, now, req,
              createdIds, deletedIds, utc, card, hook>>

\* a component asks for the query: the first attempt starts with no failure
QueryFetch ==
  /\ query.state \in {"idle", "success", "error"}
  /\ remaining > 0
  /\ remaining' = remaining - 1
  /\ query' = [NoQuery EXCEPT !.state = "fetching"]
  /\ QueryFrame

\* the attempt resolves
QuerySucceed ==
  /\ query.state = "fetching"
  /\ query' = [query EXCEPT !.state = "success", !.failureCount = 0]
  /\ UNCHANGED remaining
  /\ QueryFrame

\* the attempt rejects: the retryer asks retry(failureCount, error); on true
\* it sleeps retryDelay(failureCount) and counts the failure, on false the
\* error is surfaced
QueryFail ==
  /\ query.state = "fetching"
  /\ \E status \in ErrorStatuses :
       query' = [query EXCEPT
         !.state = IF retry(query.failureCount, status) THEN "waiting" ELSE "error",
         !.delay = IF retry(query.failureCount, status) THEN retryDelay(query.failureCount) ELSE 0,
         !.failureCount = @ + 1,
         !.errors = Append(@, status)]
  /\ UNCHANGED remaining
  /\ QueryFrame

\* the sleep is over: the next attempt starts
QueryRetry ==
  /\ query.state = "waiting"
  /\ query' = [query EXCEPT !.state = "fetching", !.delay = 0]
  /\ UNCHANGED remaining
  /\ QueryFrame

InitQuery ==
  /\ backend = "neon"
  /\ inflight = 0
  /\ remaining = MaxReq
  /\ team_members = {}
  /\ nextId = 1
  /\ blobs = {}
  /\ nextUrl = 1
  /\ now = Epoch
  /\ req = [p \in Procs |-> Idle]
  /\ createdIds = {}
  /\ deletedIds = {}
  /\ utc = 0
  /\ card = NoCard
  /\ hook = NoHook
  /\ query = NoQuery

QueryNext ==
  \/ QueryFetch
  \/ QuerySucceed
  \/ QueryFail
  \/ QueryRetry

QuerySpec == InitQuery /\ [][QueryNext]_vars

\* every attempt settles and every sleep ends
QueryLiveSpec ==
  /\ QuerySpec
  /\ WF_vars(QuerySucceed \/ QueryFail)
  /\ WF_vars(QueryRetry)

--------------------------------------------------------------------------
(* useTeamMembers: the client hook in front of the "pg" backend *)

HookFrame ==
  UNCHANGED <<backend, inflight, team_members, nextId, blobs, nextUrl, now,
              createdIds, deletedIds, utc, card, query>>

\* fetch('/api/team-members', ...) from the signed-in browser; the slot holds
\* the request and then its response until the awaiting call takes it
Call(p, method, body, id) ==
  /\ req[p].pc = "idle"
  /\ remaining > 0
  /\ remaining' = remaining - 1
  /\ req' = [req EXCEPT ![p] = [Idle EXCEPT !.pc = "mw", !.method = method,
                                           !.path = TeamMembersPath, !.who = 1,
                                           !.body = body, !.id = id,
                                           !.pre = <<team_members, blobs>>,
                                           !.hist = <<createdIds, deletedIds>>]]

\* fetchMembers up to its await: setLoading(true), setError(null), fetch
fetchMembers(p) ==
  /\ Call(p, "GET", NoBody, 0)
  /\ hook' = [hook EXCEPT !.loading = TRUE, !.error = <<>>]
  /\ HookFrame

\* fetchMembers after its await
fetchMembersResolved(p) ==
  /\ backend = "pg"
  /\ req[p].pc = "done"
  /\ req[p].method = "GET"
  /\ hook' = IF req[p].status = 200
             THEN [hook EXCEPT !.members = req[p].data, !.loading = FALSE]
             ELSE [hook EXCEPT !.error = <<"Failed to fetch team members">>, !.loading = FALSE]
  /\ req' = [req EXCEPT ![p] = Idle]
  /\ UNCHANGED remaining
  /\ HookFrame

\* addMember up to its await: setError(null), fetch with method POST
addMember(p) ==
  /\ \E memberData \in {PgBody, [PgBody EXCEPT !.flag = ""]} :
       Call(p, "POST", memberData, 0)
  /\ hook' = [hook EXCEPT !.error = <<>>]
  /\ HookFrame

\* addMember after its await: setMembers(prev => [...prev, result.data])
addMemberResolved(p) ==
  /\ backend = "pg"
  /\ req[p].pc = "done"
  /\ req[p].method = "POST"
  /\ hook' = IF req[p].status = 200
             THEN [hook EXCEPT !.members = Append(@, req[p].data[1]),
                               !.added = @ \cup {req[p].data[1].id}]
             ELSE [hook EXCEPT !.error = <<"Failed to add team member">>]
  /\ req' = [req EXCEPT ![p] = Idle]
  /\ UNCHANGED remaining
  /\ HookFrame

\* removeMember up to its await: setError(null), fetch with method DELETE
removeMember(p) ==
  /\ \E id \in {1, Len(PgSeed) + 1} :
       Call(p, "DELETE", NoBody, id)
  /\ hook' = [hook EXCEPT !.error = <<>>]
  /\ HookFrame

\* removeMember after its await:
\* setMembers(prev => prev.filter(member => member.id !== id))
removeMemberResolved(p) ==
  /\ backend = "pg"
  /\ req[p].pc = "done"
  /\ req[p].method = "DELETE"
  /\ hook' = IF req[p].status = 200
             THEN [hook EXCEPT !.members = FilterOut(@, req[p].id),
                               !.removed = @ \cup {req[p].id}]
             ELSE [hook EXCEPT !.error = <<"Failed to remove team member">>]
  /\ req' = [req EXCEPT ![p] = Idle]
  /\ UNCHANGED remaining
  /\ HookFrame

\* the mounted hook in front of a table that holds the initial members
InitHook ==
  /\ backend = "pg"
  /\ inflight = NProc
  /\ remaining = MaxReq
  /\ team_members = SeedRows(1)
  /\ nextId = Len(PgSeed) + 1
  /\ blobs = {}
  /\ nextUrl = 1
  /\ now = Epoch
  /\ req = [p \in Procs |-> Idle]
  /\ createdIds = {}
  /\ deletedIds = {}
  /\ utc = 0
  /\ card = NoCard
  /\ hook = NoHook
  /\ query = NoQuery

HookNext ==
  \E p \in Procs :
    \/ fetchMembers(p)
    \/ addMember(p)
    \/ removeMember(p)
    \/ Middleware(p)
    \/ PgEntry(p)
    \/ initializeDatabase(p)
    \/ PgSelect(p)
    \/ PgInsert(p)
    \/ PgDelete(p)
    \/ fetchMembersResolved(p)
    \/ addMemberResolved(p)
    \/ removeMemberResolved(p)

HookSpec == InitHook /\ [][HookNext]_vars

\* overlapping Deletes on the neon routes: the table holds the record that
\* user 1 created earlier, and its creator or the admin asks for its removal
AnnsRow ==
  [id |-> 1, name |-> "Ann", location |-> "Riga", timezone |-> "Europe/Riga",
   created_by |-> 1, status |-> "active", created_at |-> 1]

RaceDelete(p) ==
  \E who \in {1, 3}, id \in {1, 2} : Arrive(p, "DELETE", TeamMembersPath, who, NoBody, id)

RaceDeleteById(p) ==
  \E who \in {1, 3}, id \in {1, 2} : Arrive(p, "DELETE", TeamMemberIdPath, who, NoBody, id)

InitDeleteRace ==
  /\ backend = "neon"
  /\ inflight = 2
  /\ remaining = MaxReq
  /\ team_members = {AnnsRow}
  /\ nextId = 2
  /\ blobs = {}
  /\ nextUrl = 1
  /\ now = Epoch
  /\ req = [p \in Procs |-> Idle]
  /\ createdIds = {1}
  /\ deletedIds = {}
  /\ utc = 0
  /\ card = NoCard
  /\ hook = NoHook
  /\ query = NoQuery

DeleteRaceNext ==
  \E p \in Procs :
    \/ RaceDelete(p)
    \/ RaceDeleteById(p)
    \/ Middleware(p)
    \/ DeleteEntry(p)
    \/ DeleteLookup(p)
    \/ DeleteRole(p)
    \/ DeleteExec(p)
    \/ DeleteByIdEntry(p)
    \/ DeleteByIdCheck(p)
    \/ DeleteByIdExec(p)

DeleteRaceSpec == InitDeleteRace /\ [][DeleteRaceNext]_vars

\* the same with one request more, so that a List can follow two Creates
InitBlobReadBack == Empty /\ backend = "blob" /\ inflight = 2 /\ remaining = MaxReq + 1

BlobReadBackSpec == InitBlobReadBack /\ [][BlobConcNext]_vars

--------------------------------------------------------------------------
(* Vocabulary of the properties *)

Done(p) == req[p].pc = "done"

NonAdmins == {u \in UserIds : users[u] # "admin"}

Admins == {u \in UserIds : users[u] = "admin"}

\* the active records of table tm that principal u created
ActiveOf(u, tm) == {m \in tm : m.status = "active" /\ m.created_by = u}

\* the store as the request found it on arrival
PreTable(p) == req[p].pre[1]

\* a completed Create on the neon route
NeonCreate(p) == Done(p) /\ backend = "neon" /\ req[p].method = "POST"

\* a completed Delete on either neon route
NeonDelete(p) == Done(p) /\ backend = "neon" /\ req[p].method = "DELETE"

\* the response reports success and the record it names is stored with this
\* creator and status
Stored(p, creator, status) ==
  /\ req[p].status = 200
  /\ \E m \in SelectAll :
       m.id = req[p].created /\ m.created_by = creator /\ m.status = status

\* a denial for want of a principal: the handler's 401 or the middleware's
\* redirect to the sign-in page
DeniedUnauthorized(code) == code \in {401, 307}

--------------------------------------------------------------------------
(* Properties *)

\* C1: on the neon route, in every state reachable by interleaving the store
\* round-trips of overlapping Create and Delete requests, each non-admin
\* principal has at most one active record with created_by equal to their id.
C1_QuotaUnderConcurrency ==
  \A u \in NonAdmins : Cardinality(ActiveOf(u, team_members)) <= 1

\* C2: when each request completes before the next one starts, the number of
\* active records created by one non-admin principal never exceeds 1 after
\* any request.
C2_SequentialQuota ==
  backend = "neon" =>
    \A u \in NonAdmins : \A m1, m2 \in ActiveOf(u, team_members) : m1.id = m2.id

\* C2 witness: a second Create by a non-admin principal has completed while
\* their first record is stored.
C2_Witness ==
  \E p \in Procs :
    /\ NeonCreate(p)
    /\ req[p].who \in NonAdmins
    /\ req[p].body = ValidBody
    /\ ActiveOf(req[p].who, PreTable(p)) # {}
    /\ Cardinality(ActiveOf(req[p].who, team_members)) = 1

\* C3: two overlapping valid Creates of one non-admin principal who owns no
\* record end with exactly one success and one quota rejection, and only
\* the successful one stored a record.
C3_ExactlyOneCreateWins ==
  \A p, q \in Procs :
    ( /\ p # q
      /\ NeonCreate(p) /\ NeonCreate(q)
      /\ req[p].who \in NonAdmins /\ req[q].who = req[p].who
      /\ req[p].body = ValidBody /\ req[q].body = ValidBody
      /\ ActiveOf(req[p].who, PreTable(p)) = {}
      /\ ActiveOf(req[p].who, PreTable(q)) = {} )
    => /\ {req[p].status, req[q].status} = {200, 403}
       /\ Cardinality(ActiveOf(req[p].who, team_members)) = 1

\* C4: a Delete of a stored record by an authenticated principal who is
\* neither admin nor its creator returns 403 and the record is still listed.
C4_ForeignDeleteForbidden ==
  \A p \in Procs :
    NeonDelete(p) /\ req[p].who \in NonAdmins =>
      \A m \in PreTable(p) :
        m.id = req[p].id /\ m.created_by # req[p].who =>
          req[p].status = 403 /\ m \in SelectAll

\* C4 witness: such a Delete on /api/team-members?id= has completed.
C4_Witness ==
  \E p \in Procs :
    /\ NeonDelete(p)
    /\ req[p].path = TeamMembersPath
    /\ req[p].who \in NonAdmins
    /\ \E m \in PreTable(p) : m.id = req[p].id /\ m.created_by # req[p].who

\* C5: a Delete by an admin of any stored record, whoever created it, is
\* allowed and removes the record.
C5_AdminDeletesAny ==
  \A p \in Procs :
    NeonDelete(p) /\ req[p].who \in Admins /\ SelectById(req[p].id) \cap PreTable(p) # {} =>
      req[p].status = 200 /\ SelectById(req[p].id) = {}

\* C6: a valid Create by an admin is allowed however many active records the
\* admin already created, and the new record is stored active.
C6_AdminCreatesFreely ==
  \A p \in Procs :
    NeonCreate(p) /\ req[p].who \in Admins /\ req[p].body = ValidBody =>
      Stored(p, req[p].who, "active")

\* C7: a valid Create by a non-admin principal who owns no active record
\* succeeds and stores exactly one new record, active and created by them.
C7_CreateWithinQuota ==
  \A p \in Procs :
    ( /\ NeonCreate(p)
      /\ req[p].who \in NonAdmins
      /\ req[p].body = ValidBody
      /\ ActiveOf(req[p].who, PreTable(p)) = {} )
    => /\ Stored(p, req[p].who, "active")
       /\ PreTable(p) \subseteq team_members
       /\ Cardinality(team_members \ PreTable(p)) = 1

\* C7 witness: a principal without a record creates one after an earlier
\* record was deleted (the table was empty on arrival and the new record has
\* the second serial id).
C7_Witness ==
  \E p \in Procs :
    /\ NeonCreate(p)
    /\ req[p].who \in NonAdmins
    /\ req[p].body = ValidBody
    /\ PreTable(p) = {}
    /\ req[p].status = 200
    /\ req[p].created = 2

\* C8: a Create that passes validation, by a non-admin principal who owns an
\* active record, is denied with the quota error (403) and leaves the stored
\* records as they were.
C8_CreateOverQuotaDenied ==
  \A p \in Procs :
    ( /\ NeonCreate(p)
      /\ req[p].who \in NonAdmins
      /\ ~MissingField(req[p].body)
      /\ ActiveOf(req[p].who, PreTable(p)) # {} )
    => req[p].status = 403 /\ team_members = PreTable(p)

\* C8 witness: such a Create has completed.
C8_Witness ==
  \E p \in Procs :
    /\ NeonCreate(p)
    /\ req[p].who \in NonAdmins
    /\ ~MissingField(req[p].body)
    /\ ActiveOf(req[p].who, PreTable(p)) # {}
    /\ req[p].status = 403

\* C9: a valid Create without an authenticated principal is allowed and
\* stores a record with status pending and created_by NULL.
C9_AnonymousCreatePending ==
  \A p \in Procs :
    NeonCreate(p) /\ req[p].who = Anonymous /\ req[p].body = ValidBody =>
      Stored(p, NULL, "pending")

\* C10: a Delete without an authenticated principal is denied as
\* unauthorized, whether or not the id exists, and the store is unchanged.
C10_AnonymousDeleteDenied ==
  \A p \in Procs :
    Done(p) /\ req[p].method = "DELETE" /\ req[p].who = Anonymous =>
      /\ DeniedUnauthorized(req[p].status)
      /\ <<team_members, blobs>> = req[p].pre

\* C10 witness: on the blob backend, whose handler has no session check, an
\* anonymous Delete naming a stored member has completed.
C10_Witness ==
  \E p \in Procs :
    /\ Done(p) /\ req[p].method = "DELETE" /\ req[p].who = Anonymous
    /\ \E b \in blobs : \E i \in 1..Len(b.data) : b.data[i].id = req[p].id

\* C11: a Delete by an authenticated principal naming an id that is not
\* stored (never created, or deleted by an earlier completed Delete) returns
\* 404, and the table is as it was.
C11_DeleteMissingNotFound ==
  \A p \in Procs :
    (/\ NeonDelete(p) /\ req[p].who # Anonymous /\ req[p].id # 0
     /\ \A m \in PreTable(p) : m.id # req[p].id)
    => req[p].status = 404 /\ team_members = PreTable(p)

\* C11 witness: the id named was created and deleted before (the serial has
\* passed it) and the Delete on /api/team-members?id= has completed.
C11_Witness ==
  \E p \in Procs :
    /\ NeonDelete(p) /\ req[p].who # Anonymous
    /\ req[p].path = TeamMembersPath
    /\ req[p].id # 0 /\ req[p].id < nextId
    /\ ~\E m \in PreTable(p) : m.id = req[p].id

\* the ids of a listing
Ids(members) == {members[i].id : i \in DOMAIN members}

\* a completed List that returned the collection
Listed(p) == Done(p) /\ req[p].method = "GET" /\ req[p].status = 200

\* C12: a List contains every id that a Create had reported before the List
\* began, unless a Delete of that id has succeeded, and contains no id whose
\* Delete had succeeded before the List began.
C12_ListFollowsCreateAndDelete ==
  \A p \in Procs :
    Listed(p) =>
      /\ (req[p].hist[1] \ deletedIds) \subseteq Ids(req[p].data)
      /\ req[p].hist[2] \cap Ids(req[p].data) = {}

\* a completed Create on either backend
Created(p) == Done(p) /\ req[p].method = "POST"

\* the store is as the request found it
StoreUntouched(p) == <<team_members, blobs>> = req[p].pre

\* C13: a Create whose name, location or timezone is missing or empty is
\* answered 400, and the store is as it was.
C13_MissingFieldRejected ==
  \A p \in Procs :
    Created(p) /\ MissingField(req[p].body)
      => req[p].status = 400 /\ StoreUntouched(p)

\* every record of every stored version of the blob collection
BlobRecords == UNION {{b.data[i] : i \in DOMAIN b.data} : b \in blobs}

\* C14: every stored record names a resolvable zone, and a Create naming an
\* unresolvable zone is rejected and stores nothing.
C14_StoredZonesResolvable ==
  /\ \A m \in team_members \cup BlobRecords : Resolvable(m.timezone)
  /\ \A p \in Procs :
       Created(p) /\ ~Resolvable(req[p].body.timezone)
         => req[p].status # 200 /\ StoreUntouched(p)

\* C15: no two stored records have the same id: rows of the table, and
\* positions of a stored blob collection.
C15_IdsUnique ==
  /\ \A m, n \in team_members : m.id = n.id => m = n
  /\ \A b \in blobs : \A i, j \in DOMAIN b.data : b.data[i].id = b.data[j].id => i = j

\* C16: a record appears as active or pending, and while a record with its
\* id is stored its id, status, created_by and created_at stay as they were
\* (so pending never becomes active); the only other step is its removal.
C16_RecordLifecycle ==
  [][ /\ \A m \in team_members : \A n \in team_members' :
           n.id = m.id => /\ n.status = m.status
                          /\ n.created_by = m.created_by
                          /\ n.created_at = m.created_at
      /\ \A n \in team_members' :
           (\A m \in team_members : m.id # n.id) => n.status \in {"active", "pending"}
    ]_vars

\* C16 witness: a record stored before a Delete of another record began is
\* still stored after that Delete succeeded.
C16_Witness ==
  \E p \in Procs :
    /\ NeonDelete(p) /\ req[p].status = 200
    /\ PreTable(p) \cap team_members # {}

\* the local hour of the card's zone at the instant of the clock
LocalHour == ((utc + ZoneOffset[card.timezone]) % (24 * 60)) \div 60

\* the local minute of the day of the card's zone at the instant of the clock
LocalMinute == (utc + ZoneOffset[card.timezone]) % (24 * 60)

\* the status a card shows
ShowsWorking == card.badge \in {"Active Hours", "Business Hours", "Working now"}

ShowsOutside == card.badge \in {"Off Hours", "After Hours", "Outside working hours"}

ShowsUnknown == card.badge = "Working hours not set"

\* C17: a card without a work window, in a resolvable zone and with its time
\* set, shows Working when the local hour is in 9..17 and Outside otherwise,
\* whatever the day.
C17_DefaultWindow ==
  /\ card.kind \in {"board", "member"}
  /\ card.time # <<>>
  /\ Resolvable(card.timezone)
  => IF LocalHour \in 9..17 THEN ShowsWorking ELSE ShowsOutside

\* C18: the gameboard card shows Unknown exactly when both texts of the window
\* are present and one of them is not a valid HH:mm; without a window it
\* shows Working or Outside.
C18_UnknownOnlyWhenMalformed ==
  card.kind = "game" /\ Resolvable(card.timezone)
  => IF card.work_start = <<>> \/ card.work_end = <<>>
     THEN ShowsWorking \/ ShowsOutside
     ELSE IF WellFormed(card.work_start) /\ WellFormed(card.work_end)
          THEN ~ShowsUnknown
          ELSE ShowsUnknown

\* C19: with a well-formed window (start, end) and local time t, the card
\* shows Working exactly when t >= start or t <= end if end <= start, and
\* exactly when start <= t <= end otherwise; else it shows Outside.
C19_ConfiguredWindow ==
  (/\ card.kind = "game"
   /\ Resolvable(card.timezone)
   /\ card.work_start # <<>> /\ WellFormed(card.work_start)
   /\ card.work_end # <<>> /\ WellFormed(card.work_end))
  => LET start == MinuteOfDay(card.work_start)
         end == MinuteOfDay(card.work_end)
         t == LocalMinute
         within == IF end <= start THEN t >= start \/ t <= end
                   ELSE start <= t /\ t <= end
     IN IF within THEN ShowsWorking ELSE ShowsOutside

\* C19 witness: the window 22:00-06:00 at 23:30 local shows Working.
C19_Witness ==
  /\ card.kind = "game"
  /\ card.timezone = "Europe/Riga"
  /\ card.work_start = <<"2", "2", ":", "0", "0">>
  /\ card.work_end = <<"0", "6", ":", "0", "0">>
  /\ LocalMinute = 23 * 60 + 30
  /\ ShowsWorking

\* two Creates, the only requests so far, have both answered 200 after
\* reading the same collection
BothCreated(p, q) ==
  /\ p # q
  /\ backend = "blob"
  /\ remaining + 2 = MaxReq
  /\ Created(p) /\ req[p].status = 200
  /\ Created(q) /\ req[q].status = 200
  /\ req[p].read = req[q].read

\* C20: when two Creates on the blob backend read the same collection and
\* both succeed, every collection stored afterwards holds the records read
\* and one new record only: one of the two Creates is lost.
C20_LostUpdate ==
  \A p, q \in Procs :
    BothCreated(p, q) => \A b \in blobs : Len(b.data) = Len(req[p].read) + 1

\* C20 witness: two Creates have fetched the same stored blob, both answered
\* 200 with different ids, and the one stored collection lacks one of the two.
C20_Witness ==
  \E p, q \in Procs :
    /\ BothCreated(p, q)
    /\ req[p].url # 0 /\ req[p].url = req[q].url
    /\ req[p].created # req[q].created
    /\ Cardinality(blobs) = 1
    /\ \A b \in blobs : ~({req[p].created, req[q].created} \subseteq Ids(b.data))

C27_AnonymousList ==
  \A p \in Procs :
    Done(p) /\ req[p].method = "GET" /\ req[p].who = Anonymous
      => /\ req[p].status = 200
         /\ backend = "neon" => Ids(req[p].data) = {m.id : m \in PreTable(p)}

\* C28: a Create with valid input from an anonymous caller or from an admin
\* answers 200 and leaves one more record, under an id no stored record had;
\* hence two identical Creates leave two records.
C28_CreateNotIdempotent ==
  \A p \in Procs :
    NeonCreate(p) /\ ~MissingField(req[p].body) /\ req[p].who \in {Anonymous} \cup Admins
      => /\ req[p].status = 200
         /\ \E m \in team_members :
              /\ m.id = req[p].created
              /\ \A o \in PreTable(p) : o.id # m.id
              /\ team_members = PreTable(p) \cup {m}

\* C22: when two Deletes of the same stored id by its creator overlap, one
\* answers 200 and the other 404.
C22_ConcurrentDeletes ==
  \A p, q \in Procs :
    ( /\ p # q
      /\ NeonDelete(p) /\ NeonDelete(q)
      /\ req[p].id = req[q].id
      /\ \E m \in PreTable(p) \cap PreTable(q) :
           m.id = req[p].id /\ m.created_by = req[p].who /\ m.created_by = req[q].who )
    => {req[p].status, req[q].status} = {200, 404}

\* C23: a List or Create under which the read of the stored collection
\* failed answers 500, returns no data and builds no record to save.
C23_ReadFailureSurfaced ==
  \A p \in Procs :
    Done(p) /\ req[p].method \in {"GET", "POST"} /\ req[p].fault = "fetch"
      => /\ req[p].status = 500
         /\ req[p].data = <<>>
         /\ req[p].created = 0

\* C24: on the blob backend a List that found a stored collection on arrival
\* writes nothing, and what it returns is a collection that was stored when
\* it arrived or is stored when it answers.
C24_ListDuringSave ==
  /\ [][\A p \in Procs :
          (/\ backend = "blob" /\ req[p].method = "GET"
           /\ req[p].pre[2] # {} /\ req'[p] # req[p])
          => blobs' = blobs]_vars
  /\ [](\A p \in Procs :
          Listed(p) /\ backend = "blob" /\ req[p].pre[2] # {}
            => req[p].data \in {b.data : b \in req[p].pre[2] \cup blobs})

\* C25: a Create or Delete under which a step of the save failed answers 500
\* and the store is as the request found it.
C25_FailedSaveKeepsStore ==
  \A p \in Procs :
    Done(p) /\ req[p].method \in {"POST", "DELETE"} /\ req[p].fault \in {"list", "del", "put"}
      => req[p].status = 500 /\ StoreUntouched(p)

\* C21: a List that returned the collection leaves the store as it found it,
\* the empty store included.
C21_ListReadOnly ==
  \A p \in Procs : Listed(p) => StoreUntouched(p)

ClientError(status) == status \in 400..499

\* C30: a failed attempt with a status in 400..499 is never followed by another
\* attempt, a query makes at most 3 retries, the sleep before retry n (counted
\* from 0) is min(1000 * 2^n, 30000) ms, and every query that was started
\* ends in success or in error.
C30_BoundedRetry ==
  /\ [](/\ \A i \in 1..(Len(query.errors) - 1) : ~ClientError(query.errors[i])
        /\ Len(query.errors) <= 3 + 1
        /\ query.state = "waiting" =>
             /\ ~ClientError(query.errors[Len(query.errors)])
             /\ Len(query.errors) <= 3
             /\ LET n == Len(query.errors) - 1
                IN query.delay = IF 1000 * 2^n < 30000 THEN 1000 * 2^n ELSE 30000)
  /\ (query.state = "fetching") ~> (query.state \in {"success", "error"})

C30_Witness ==
  /\ query.state = "error"
  /\ Len(query.errors) = 3 + 1

\* C29: a member whose addMember resolved true and that the table still holds
\* is in the hook's members, a member whose removeMember resolved true is not;
\* an add or remove that resolves false leaves members as it was and sets
\* error.
C29_MutationsSurviveFetch ==
  /\ [](/\ \A id \in hook.added :
             id \in Ids(OrderAsc(team_members)) => id \in Ids(hook.members)
        /\ \A id \in hook.removed : id \notin Ids(hook.members))
  /\ [][\A p \in Procs :
          (/\ Done(p)
           /\ req[p].method \in {"POST", "DELETE"}
           /\ req[p].status # 200
           /\ req'[p] = Idle)
          => hook'.members = hook.members /\ hook'.error # <<>>]_vars

====
